---- MODULE Spec2Model ----
(***************************************************************************)
(* A model of the TIFF/EXIF segment parser of exifr                        *)
(* (src/parsers/tiff.mjs): the header validator, the directory and tag     *)
(* entry decoders of TiffCore, and the block navigator, thumbnail          *)
(* extractor and post-processor of Tiff.                                   *)
(*                                                                         *)
(* The buffer is a sequence of bytes; byte offset o of the source is       *)
(* element o + 1 of the sequence.  A parse session is the record sess.     *)
(***************************************************************************)
EXTENDS Integers, Sequences, FiniteSets, TLC

VARIABLES buf, sess, calls, lastOp

vars == <<buf, sess, calls, lastOp>>

(***************************************************************************)
(* Bounds of the model.                                                    *)
(***************************************************************************)
\* the number of calls made on one session
MaxCalls == 2

(***************************************************************************)
(* Constants of the program.                                               *)
(***************************************************************************)
TIFF_LITTLE_ENDIAN == 18761      \* 0x4949
TIFF_BIG_ENDIAN == 19789         \* 0x4D4D
TIFF_MAGIC == 42                 \* 0x002A
MIN_IFD0_OFFSET == 8
ENTRY_SIZE == 12
THUMB_OFFSET == 513              \* 0x0201
THUMB_LENGTH == 514              \* 0x0202
TAG_IFD_EXIF == 34665            \* 0x8769
TAG_IFD_GPS == 34853             \* 0x8825
TAG_IFD_INTEROP == 40965         \* 0xA005
GPS_LATREF == 1
GPS_LAT == 2
GPS_LONREF == 3
GPS_LON == 4

blockKeys == <<"ifd0", "exif", "gps", "interop", "thumbnail">>

BlockNames == {blockKeys[i] : i \in 1..Len(blockKeys)}

\* SIZE_LOOKUP[type]: the storage width of a field type; 0 stands for the
\* undefined the lookup yields for a code that is not in the table.
SIZE_LOOKUP(type) ==
    CASE type \in {1, 2, 6, 7} -> 1
      [] type \in {3, 8} -> 2
      [] type \in {4, 9, 11, 13} -> 4
      [] type \in {5, 10, 12} -> 8
      [] OTHER -> 0

KnownType(type) == SIZE_LOOKUP(type) # 0

\* JavaScript's undefined, for a field that holds a number otherwise
Undefined == -1

NoError == "none"
MalformedHeader == "MalformedHeader"
UnknownFieldType == "UnknownFieldType"
OffsetOutOfBounds == "OffsetOutOfBounds"
TypeError == "TypeError"

(***************************************************************************)
(* The byte reader (BufferView over a DataView).  A read that does not lie *)
(* inside the buffer throws; CanRead is the reader's range test.           *)
(***************************************************************************)
byteLength == Len(buf)

CanRead(offset, n) == offset >= 0 /\ n >= 0 /\ offset + n <= byteLength

\* ToIndex of the DataView getters: undefined (and NaN) read at 0
ToIndex(offset) == IF offset = Undefined THEN 0 ELSE offset

getUint8(offset) == buf[offset + 1]

getUint16(offset, le) ==
    IF le THEN buf[offset + 1] + 256 * buf[offset + 2]
          ELSE 256 * buf[offset + 1] + buf[offset + 2]

\* the byte of a 32-bit word at offset that carries the highest bits
TopByte(offset, le) == IF le THEN buf[offset + 4] ELSE buf[offset + 1]

\* the low 24 bits of a 32-bit word at offset
Low24(offset, le) ==
    IF le THEN buf[offset + 1] + 256 * buf[offset + 2] + 65536 * buf[offset + 3]
          ELSE 65536 * buf[offset + 2] + 256 * buf[offset + 3] + buf[offset + 4]

\* (the buffers of the model keep the top bit of the unsigned 32-bit words
\* they lay out clear, so that the value is a number TLC can hold)
getUint32(offset, le) == 16777216 * TopByte(offset, le) + Low24(offset, le)

Signed(v, bits) == IF v >= 2 ^ (bits - 1) THEN v - 2 ^ bits ELSE v

getInt8(offset) == Signed(getUint8(offset), 8)

getInt16(offset, le) == Signed(getUint16(offset, le), 16)

getInt32(offset, le) == 16777216 * Signed(TopByte(offset, le), 8) + Low24(offset, le)

\* the bytes [offset, offset + length) of the buffer
getBytes(offset, length) == SubSeq(buf, offset + 1, offset + length)

(***************************************************************************)
(* Tag values.  A value is a record: kind says whether the entry decoded   *)
(* to one scalar, an array of scalars, a string or a byte slice; v holds   *)
(* the numbers (a rational contributes numerator and denominator, a float  *)
(* its bit pattern); revived counts the applications of translateValue.    *)
(***************************************************************************)
MkVal(kind, type, v) == [kind |-> kind, type |-> type, v |-> v, revived |-> 0]

NoVal == MkVal("undefined", 0, <<>>)

Result(err, val) == [err |-> err, val |-> val]

Throw(err) == Result(err, NoVal)

\* the bytes one scalar of the type occupies
ScalarFits(type, offset) == CanRead(offset, SIZE_LOOKUP(type))

\* TiffCore.parseTagValue for a known type: the numbers of one scalar
parseTagValue(type, offset, le) ==
    CASE type = 1 -> <<getUint8(offset)>>
      [] type = 3 -> <<getUint16(offset, le)>>
      [] type = 4 -> <<getUint32(offset, le)>>
      [] type = 5 -> <<getUint32(offset, le), getUint32(offset + 4, le)>>
      [] type = 6 -> <<getInt8(offset)>>
      [] type = 8 -> <<getInt16(offset, le)>>
      [] type = 9 -> <<getInt32(offset, le)>>
      [] type = 10 -> <<getInt32(offset, le), getInt32(offset + 4, le)>>
      [] type = 11 -> <<getUint32(offset, le)>>
      [] type = 12 -> <<getUint32(offset, le), getUint32(offset + 4, le)>>
      [] type = 13 -> <<getUint32(offset, le)>>

RECURSIVE StripNul(_)
\* while (string.endsWith('\0')) string = string.slice(0, -1)
StripNul(str) ==
    IF Len(str) > 0 /\ str[Len(str)] = 0
    THEN StripNul(SubSeq(str, 1, Len(str) - 1))
    ELSE str

RECURSIVE Flatten(_)
Flatten(seqs) ==
    IF Len(seqs) = 0 THEN <<>> ELSE Head(seqs) \o Flatten(Tail(seqs))

\* a decoder that reads the slot of every entry as an offset
ValueOffsetDeref(type, valuesCount, offset, le) == getUint32(offset + 8, le)

\* a decoder that takes every value from the entry's own slot
ValueOffsetInline(type, valuesCount, offset, le) == offset + 8

\* where parseTag finds the value of the entry: the entry's own slot when
\* the value fits in it, the offset stored in the slot otherwise
ValueOffset(type, valuesCount, offset, le) ==
    IF KnownType(type) /\ SIZE_LOOKUP(type) * valuesCount <= 4
    THEN offset + 8
    ELSE getUint32(offset + 8, le)

\* a parseTag whose byte slice stops at the end of the buffer
parseTagAtClamped(type, valuesCount, valueOffset, le) ==
    IF type = 7 THEN
        Result(NoError, MkVal("bytes", type,
            getBytes(valueOffset, IF CanRead(valueOffset, valuesCount) THEN valuesCount
                                  ELSE byteLength - valueOffset)))
    ELSE IF type = 2 /\ ~CanRead(valueOffset, valuesCount) THEN Throw(OffsetOutOfBounds)
    ELSE IF valuesCount = 0 THEN Result(NoError, MkVal("array", type, <<>>))
    ELSE IF ~KnownType(type) THEN Throw(UnknownFieldType)
    ELSE IF ~CanRead(valueOffset, SIZE_LOOKUP(type) * valuesCount)
        THEN Throw(OffsetOutOfBounds)
    ELSE IF type = 2 THEN
        Result(NoError, MkVal("string", type, StripNul(getBytes(valueOffset, valuesCount))))
    ELSE IF valuesCount = 1 THEN
        Result(NoError, MkVal("scalar", type, parseTagValue(type, valueOffset, le)))
    ELSE Result(NoError, MkVal("array", type,
            Flatten([i \in 1..valuesCount |->
                parseTagValue(type, valueOffset + (i - 1) * SIZE_LOOKUP(type), le)])))

\* the part of parseTag after the bounds check of the value offset
parseTagAt(type, valuesCount, valueOffset, le) ==
    IF type = 2 THEN
        IF ~CanRead(valueOffset, valuesCount) THEN Throw(OffsetOutOfBounds)
        ELSE Result(NoError,
                 MkVal("string", type, StripNul(getBytes(valueOffset, valuesCount))))
    ELSE IF type = 7 THEN
        IF ~CanRead(valueOffset, valuesCount) THEN Throw(OffsetOutOfBounds)
        ELSE Result(NoError, MkVal("bytes", type, getBytes(valueOffset, valuesCount)))
    ELSE IF valuesCount = 1 THEN
        IF ~KnownType(type) THEN Throw(UnknownFieldType)
        ELSE IF ~ScalarFits(type, valueOffset) THEN Throw(OffsetOutOfBounds)
        ELSE Result(NoError, MkVal("scalar", type, parseTagValue(type, valueOffset, le)))
    ELSE IF valuesCount = 0 THEN
        Result(NoError, MkVal("array", type, <<>>))
    ELSE IF ~KnownType(type) THEN Throw(UnknownFieldType)
    ELSE IF ~CanRead(valueOffset, SIZE_LOOKUP(type) * valuesCount)
        THEN Throw(OffsetOutOfBounds)
    ELSE Result(NoError, MkVal("array", type,
            Flatten([i \in 1..valuesCount |->
                parseTagValue(type, valueOffset + (i - 1) * SIZE_LOOKUP(type), le)])))

\* TiffCore.parseTag: the value of the 12-byte entry at offset
parseTag(offset, le) ==
    IF ~CanRead(offset + 2, 2) \/ ~CanRead(offset + 4, 4) THEN Throw(OffsetOutOfBounds)
    ELSE LET type == getUint16(offset + 2, le)
             valuesCount == getUint32(offset + 4, le)
             inline == KnownType(type) /\ SIZE_LOOKUP(type) * valuesCount <= 4
         IN IF ~inline /\ ~CanRead(offset + 8, 4) THEN Throw(OffsetOutOfBounds)
            ELSE LET valueOffset == ValueOffset(type, valuesCount, offset, le)
                 IN IF valueOffset > byteLength THEN Throw(OffsetOutOfBounds)
                    ELSE parseTagAt(type, valuesCount, valueOffset, le)

(***************************************************************************)
(* Mappings from keys to tag values (JavaScript objects).  A key is a tag  *)
(* code or, after translation, the number that stands for its name.        *)
(***************************************************************************)
EmptyMap == [k \in {} |-> NoVal]

Put(m, k, v) == [x \in (DOMAIN m) \cup {k} |-> IF x = k THEN v ELSE m[x]]

Remove(m, ks) == [x \in (DOMAIN m) \ ks |-> m[x]]

Has(m, k) == k \in DOMAIN m

\* a block of the session: undefined until its directory was decoded
UndefBlock == [def |-> FALSE, m |-> EmptyMap]

Block(m) == [def |-> TRUE, m |-> m]

\* the number a tag value yields where the code uses it as an offset;
\* undefined when the mapping has no such key
AsOffset(m, k) == IF Has(m, k) /\ Len(m[k].v) > 0 THEN m[k].v[1] ELSE Undefined

DirResult(err, out) == [err |-> err, out |-> out]

\* a policy in which the skip set wins over the pick set
KeptUnlessSkipped(tag, options) == tag \notin options.skipTags

\* the inclusion policy of parseTags
Kept(tag, options) == tag \in options.pickTags \/ tag \notin options.skipTags

RECURSIVE parseEntries(_, _, _, _, _)
\* lines 61-62 of parseTags: the entry's value, once decoded, is stored
\* under its tag; an exception ends the loop
storeTag(output, tag, r) ==
    IF r.err # NoError THEN DirResult(r.err, EmptyMap)
    ELSE DirResult(NoError, Put(output, tag, r.val))

\* the rest of the loop after one entry
continueEntries(d, offset, remaining, le, options) ==
    IF d.err # NoError THEN d
    ELSE parseEntries(offset, remaining, le, options, d.out)

\* the loop of TiffCore.parseTags: remaining entries from offset on
parseEntries(offset, remaining, le, options, output) ==
    IF remaining = 0 THEN DirResult(NoError, output)
    ELSE IF ~CanRead(offset, 2) THEN DirResult(OffsetOutOfBounds, EmptyMap)
    ELSE IF Kept(getUint16(offset, le), options)
         THEN continueEntries(storeTag(output, getUint16(offset, le), parseTag(offset, le)),
                              offset + ENTRY_SIZE, remaining - 1, le, options)
         ELSE parseEntries(offset + ENTRY_SIZE, remaining - 1, le, options, output)

\* TiffCore.parseTags: the mapping of the directory at offset
parseTags(offset, le, options) ==
    IF ~CanRead(offset, 2) THEN DirResult(OffsetOutOfBounds, EmptyMap)
    ELSE parseEntries(offset + 2, getUint16(offset, le), le, options, EmptyMap)

(***************************************************************************)
(* The parse session (an instance of Tiff).                                *)
(***************************************************************************)
NoOutput == [def |-> FALSE, merged |-> FALSE, flat |-> EmptyMap,
             named |-> [b \in {} |-> EmptyMap]]

NoBytes == [def |-> FALSE, bytes |-> <<>>]

\* the state after construction; decodes and attempts count, per block, the
\* directory decodes that completed and the calls of parseTags made
NewSession(options) ==
    [options |-> options,
     le |-> FALSE,
     ifd0 |-> UndefBlock, exif |-> UndefBlock, gps |-> UndefBlock,
     interop |-> UndefBlock, thumbnail |-> UndefBlock,
     ifd0Offset |-> Undefined, exifOffset |-> Undefined, gpsOffset |-> Undefined,
     interopOffset |-> Undefined, ifd1Offset |-> Undefined,
     thumbnailParsed |-> FALSE,
     output |-> NoOutput,
     err |-> NoError,
     ret |-> NoBytes,
     decodes |-> [b \in BlockNames |-> 0],
     attempts |-> [b \in BlockNames |-> 0]]

Ok(s) == s.err = NoError

Raise(s, err) == [s EXCEPT !.err = err]

\* a magic check that reads the word in big-endian order whatever the marker
checkMagicBigEndian(s) ==
    IF ~CanRead(2, 2) THEN Raise(s, OffsetOutOfBounds)
    ELSE IF getUint16(2, FALSE) # TIFF_MAGIC THEN Raise(s, MalformedHeader)
    ELSE s

\* lines 48-50 of parseHeader
checkMagic(s) ==
    IF ~CanRead(2, 2) THEN Raise(s, OffsetOutOfBounds)
    ELSE IF getUint16(2, s.le) # TIFF_MAGIC THEN Raise(s, MalformedHeader)
    ELSE s

\* TiffCore.parseHeader
parseHeader(s) ==
    IF ~CanRead(0, 2) THEN Raise(s, OffsetOutOfBounds)
    ELSE IF getUint16(0, s.le) = TIFF_LITTLE_ENDIAN THEN checkMagic([s EXCEPT !.le = TRUE])
    ELSE IF getUint16(0, s.le) = TIFF_BIG_ENDIAN THEN checkMagic([s EXCEPT !.le = FALSE])
    ELSE Raise(s, MalformedHeader)

PointerTags == {TAG_IFD_EXIF, TAG_IFD_INTEROP, TAG_IFD_GPS}

\* a parseIfd0Block that removes the pointer tags before it reads them
storeIfd0SanitizeFirst(s, ifd0) ==
    IF DOMAIN ifd0 = {} THEN [s EXCEPT !.ifd0 = Block(ifd0)]
    ELSE IF s.options.sanitize
    THEN [s EXCEPT !.exifOffset = Undefined, !.interopOffset = Undefined,
                   !.gpsOffset = Undefined,
                   !.ifd0 = Block(Remove(ifd0, PointerTags))]
    ELSE [s EXCEPT !.exifOffset = AsOffset(ifd0, TAG_IFD_EXIF),
                   !.interopOffset = AsOffset(ifd0, TAG_IFD_INTEROP),
                   !.gpsOffset = AsOffset(ifd0, TAG_IFD_GPS),
                   !.ifd0 = Block(ifd0)]

\* lines 201-213 of parseIfd0Block: the decoded IFD0 is stored, the pointers
\* are captured and, under sanitize, removed from the block
storeIfd0(s, ifd0) ==
    IF DOMAIN ifd0 = {} THEN [s EXCEPT !.ifd0 = Block(ifd0)]
    ELSE [s EXCEPT !.exifOffset = AsOffset(ifd0, TAG_IFD_EXIF),
                   !.interopOffset = AsOffset(ifd0, TAG_IFD_INTEROP),
                   !.gpsOffset = AsOffset(ifd0, TAG_IFD_GPS),
                   !.ifd0 = Block(IF s.options.sanitize THEN Remove(ifd0, PointerTags)
                                                        ELSE ifd0)]

\* the session after a call of parseTags for block b returned or threw r
decoded(s, b, r) ==
    IF r.err # NoError THEN Raise([s EXCEPT !.attempts[b] = @ + 1], r.err)
    ELSE [s EXCEPT !.attempts[b] = @ + 1, !.decodes[b] = @ + 1]

\* lines 200-213 of parseIfd0Block
decodeIfd0(s, r) ==
    IF r.err # NoError THEN decoded(s, "ifd0", r) ELSE storeIfd0(decoded(s, "ifd0", r), r.out)

\* lines 196-213 of parseIfd0Block
readIfd0(s) ==
    IF s.ifd0Offset < MIN_IFD0_OFFSET THEN Raise(s, MalformedHeader)
    ELSE decodeIfd0(s, parseTags(s.ifd0Offset, s.le, s.options))

\* Tiff.parseIfd0Block
parseIfd0Block(s) ==
    IF s.ifd0.def THEN s
    ELSE IF ~CanRead(4, 4) THEN Raise(s, OffsetOutOfBounds)
    ELSE readIfd0([s EXCEPT !.ifd0Offset = getUint32(4, s.le)])

\* this[b] = this.parseTags(offset), the call having returned or thrown r
storeBlock(s, b, r) ==
    IF r.err # NoError THEN decoded(s, b, r)
    ELSE CASE b = "exif" -> [decoded(s, b, r) EXCEPT !.exif = Block(r.out)]
           [] b = "gps" -> [decoded(s, b, r) EXCEPT !.gps = Block(r.out)]
           [] b = "interop" -> [decoded(s, b, r) EXCEPT !.interop = Block(r.out)]
           [] b = "thumbnail" -> [decoded(s, b, r) EXCEPT !.thumbnail = Block(r.out),
                                                         !.thumbnailParsed = TRUE]

\* parseExifBlock without its guard on the populated block
parseExifBlockUnguarded(s) ==
    IF s.exifOffset = Undefined THEN s
    ELSE storeBlock(s, "exif", parseTags(s.exifOffset, s.le, s.options))

\* Tiff.parseExifBlock
parseExifBlock(s) ==
    IF s.exif.def THEN s
    ELSE IF s.exifOffset = Undefined THEN s
    ELSE storeBlock(s, "exif", parseTags(s.exifOffset, s.le, s.options))

\* Tiff.parseGpsBlock
parseGpsBlock(s) ==
    IF s.gps.def THEN s
    ELSE IF s.gpsOffset = Undefined THEN s
    ELSE storeBlock(s, "gps", parseTags(s.gpsOffset, s.le, s.options))

\* this.interopOffset || (this.exif && this.exif[TAG_IFD_INTEROP])
\* an Interop pointer taken from the exif block before that of IFD0
interopPointerExifFirst(s) ==
    IF s.exif.def /\ AsOffset(s.exif.m, TAG_IFD_INTEROP) # Undefined
    THEN AsOffset(s.exif.m, TAG_IFD_INTEROP)
    ELSE s.interopOffset

interopPointer(s) ==
    IF s.interopOffset # Undefined /\ s.interopOffset # 0 THEN s.interopOffset
    ELSE IF s.exif.def THEN AsOffset(s.exif.m, TAG_IFD_INTEROP)
    ELSE Undefined

\* lines 237-238 of parseInteropBlock
readInterop(s) ==
    IF s.interopOffset = Undefined THEN s
    ELSE storeBlock(s, "interop", parseTags(s.interopOffset, s.le, s.options))

\* Tiff.parseInteropBlock
parseInteropBlock(s) ==
    IF s.interop.def THEN s
    ELSE readInterop([s EXCEPT !.interopOffset = interopPointer(s)])

\* a guard of parseThumbnailBlock that does not look at mergeOutput
skipThumbnailDecoded(s, force) == s.thumbnail.def \/ s.thumbnailParsed

\* the guard of parseThumbnailBlock: the block is there, or merged output
\* does without it unless the decode is forced
skipThumbnail(s, force) ==
    \/ s.thumbnail.def \/ s.thumbnailParsed
    \/ s.options.mergeOutput /\ ~force

\* a parseThumbnailBlock that decodes a directory whatever the pointer is
readThumbnailAlways(s) ==
    storeBlock(s, "thumbnail", parseTags(s.ifd1Offset, s.le, s.options))

\* lines 250-252 of parseThumbnailBlock
readThumbnail(s) ==
    IF s.ifd1Offset = 0 THEN s
    ELSE storeBlock(s, "thumbnail", parseTags(s.ifd1Offset, s.le, s.options))

\* line 247 of parseThumbnailBlock: the place of the pointer to IFD1
ifd1PointerAt(s) ==
    IF s.ifd0Offset = Undefined THEN 0
    ELSE s.ifd0Offset + 2 + getUint16(s.ifd0Offset, s.le) * ENTRY_SIZE

\* Tiff.parseThumbnailBlock
parseThumbnailBlock(s, force) ==
    IF skipThumbnail(s, force) THEN s
    ELSE IF ~CanRead(ToIndex(s.ifd0Offset), 2) THEN Raise(s, OffsetOutOfBounds)
    ELSE IF ~CanRead(ifd1PointerAt(s), 4) THEN Raise(s, OffsetOutOfBounds)
    ELSE readThumbnail([s EXCEPT !.ifd1Offset = getUint32(ifd1PointerAt(s), s.le)])

\* this[key] for one of the block keys
BlockOf(s, key) ==
    CASE key = "ifd0" -> s.ifd0
      [] key = "exif" -> s.exif
      [] key = "gps" -> s.gps
      [] key = "interop" -> s.interop
      [] key = "thumbnail" -> s.thumbnail

\* the view's subarray(offset, length) as an owned byte sequence; an
\* undefined offset is 0 and an undefined length reaches to the end
subarray(s, offset, length) ==
    LET from == ToIndex(offset)
        len == IF length = Undefined THEN byteLength - from ELSE length
    IN IF ~CanRead(from, len) THEN Raise(s, OffsetOutOfBounds)
       ELSE [s EXCEPT !.ret = [def |-> TRUE, bytes |-> getBytes(from, len)]]

\* lines 261-269 of extractThumbnail
thumbnailBytes(s) ==
    IF ~Ok(s) \/ ~s.thumbnail.def THEN s
    ELSE subarray(s, AsOffset(s.thumbnail.m, THUMB_OFFSET),
                     AsOffset(s.thumbnail.m, THUMB_LENGTH))

\* line 260 of extractThumbnail and what follows
extractAfterIfd0(s) ==
    IF ~Ok(s) THEN s
    ELSE IF ~s.thumbnailParsed THEN thumbnailBytes(parseThumbnailBlock(s, TRUE))
    ELSE thumbnailBytes(s)

\* line 259 of extractThumbnail and what follows
extractAfterHeader(s) ==
    IF ~Ok(s) THEN s
    ELSE IF ~s.ifd0.def THEN extractAfterIfd0(parseIfd0Block(s))
    ELSE extractAfterIfd0(s)

\* Tiff.extractThumbnail
extractThumbnail(s) == extractAfterHeader(parseHeader(s))

(***************************************************************************)
(* Post-processing.  The tag dictionary, translateValue and ConvertDMSToDD *)
(* are collaborators of the parser: the dictionary names some tags of each *)
(* block, translateValue rewrites the values of some tags, ConvertDMSToDD  *)
(* builds one value from the components and the hemisphere reference.      *)
(***************************************************************************)
latitude == 200001

longitude == 200002

\* tags.tiff[key]: the tag codes the dictionary of a block names
Dictionary(key) ==
    CASE key \in {"ifd0", "thumbnail"} ->
             {256, 271, 274, THUMB_OFFSET, THUMB_LENGTH, TAG_IFD_EXIF, TAG_IFD_GPS}
      [] key = "exif" -> {36867, TAG_IFD_INTEROP}
      [] key = "gps" -> {GPS_LATREF, GPS_LAT, GPS_LONREF, GPS_LON}
      [] key = "interop" -> {1}

\* the key that stands for the name of a tag
TagName(tag) == 100000 + tag

\* dictionary[tag] || tag
Rename(key, tag) == IF tag \in Dictionary(key) THEN TagName(tag) ELSE tag

\* the tags whose values translateValue rewrites
ReviveTags == {274, 36867}

translateValue(tag, val) ==
    IF tag \in ReviveTags THEN [val EXCEPT !.revived = @ + 1] ELSE val

\* a JavaScript truth test of gps[tag]
Truthy(m, tag) ==
    /\ Has(m, tag)
    /\ \/ m[tag].kind \in {"array", "bytes", "dd"}
       \/ m[tag].kind = "string" /\ Len(m[tag].v) > 0
       \/ m[tag].kind = "scalar" /\ m[tag].v[1] # 0

\* ...gps[tag]: a number cannot be spread
Spreadable(val) == val.kind # "scalar"

ConvertDMSToDD(dms, ref) ==
    MkVal("dd", 0, dms.v \o (IF ref.kind = "undefined" THEN <<>> ELSE ref.v))

Get(m, k) == IF Has(m, k) THEN m[k] ELSE NoVal

\* lines 275-279 of postProcess
gpsRefine(s) ==
    LET gps == s.gps.m
    IN IF ~(s.gps.def /\ Truthy(gps, GPS_LAT) /\ Truthy(gps, GPS_LON)) THEN s
       ELSE IF ~Spreadable(gps[GPS_LAT]) \/ ~Spreadable(gps[GPS_LON])
            THEN Raise(s, TypeError)
       ELSE [s EXCEPT !.gps.m =
                Put(Put(gps, latitude, ConvertDMSToDD(gps[GPS_LAT], Get(gps, GPS_LATREF))),
                    longitude, ConvertDMSToDD(gps[GPS_LON], Get(gps, GPS_LONREF)))]

\* lines 285-290 of postProcess for one block
translateBlock(key, block, options) ==
    IF ~block.def THEN block
    ELSE LET revived == [t \in DOMAIN block.m |->
                            IF options.reviveValues THEN translateValue(t, block.m[t])
                            ELSE block.m[t]]
             NewKey(t) == IF options.translateTags THEN Rename(key, t) ELSE t
             Source(k) == CHOOSE t \in DOMAIN block.m :
                              /\ NewKey(t) = k
                              /\ \A u \in DOMAIN block.m : NewKey(u) = k => u <= t
         IN Block([k \in {NewKey(t) : t \in DOMAIN block.m} |-> revived[Source(k)]])

\* lines 280-292 of postProcess
translateBlocks(s) ==
    IF ~Ok(s) THEN s
    ELSE IF ~(s.options.translateTags \/ s.options.reviveValues) THEN s
    ELSE [s EXCEPT !.ifd0 = translateBlock("ifd0", @, s.options),
                   !.exif = translateBlock("exif", @, s.options),
                   !.gps = translateBlock("gps", @, s.options),
                   !.interop = translateBlock("interop", @, s.options),
                   !.thumbnail = translateBlock("thumbnail", @, s.options)]

\* Tiff.postProcess
postProcess(s) ==
    IF ~s.options.postProcess THEN s ELSE translateBlocks(gpsRefine(s))

\* an assignment in which a key already in the target keeps its value
AssignKeepFirst(target, block) ==
    IF ~block.def THEN target
    ELSE [k \in (DOMAIN target) \cup (DOMAIN block.m) |->
             IF k \in DOMAIN target THEN target[k] ELSE block.m[k]]

\* Object.assign(target, block): an undefined block adds nothing
Assign(target, block) ==
    IF ~block.def THEN target
    ELSE [k \in (DOMAIN target) \cup (DOMAIN block.m) |->
             IF k \in DOMAIN block.m THEN block.m[k] ELSE target[k]]

\* Object.assign({}, ifd0, exif, gps, interop, thumbnail)
mergedOutput(s) ==
    Assign(Assign(Assign(Assign(Assign(EmptyMap, s.ifd0), s.exif), s.gps), s.interop),
           s.thumbnail)

\* lines 183-187 of parse: the blocks that are there, by name
namedOutput(s) ==
    [key \in {b \in BlockNames : BlockOf(s, b).def} |-> BlockOf(s, key).m]

\* lines 178-189 of parse
buildOutput(s) ==
    IF s.options.mergeOutput
    THEN [s EXCEPT !.output = [def |-> TRUE, merged |-> TRUE, flat |-> mergedOutput(s),
                               named |-> NoOutput.named]]
    ELSE [s EXCEPT !.output = [def |-> TRUE, merged |-> FALSE, flat |-> EmptyMap,
                               named |-> namedOutput(s)]]

\* the statements of parse: each runs when nothing was thrown before it
ifd0Stage(s) == IF Ok(s) THEN parseIfd0Block(s) ELSE s

exifStage(s) == IF Ok(s) /\ s.options.exif THEN parseExifBlock(s) ELSE s

gpsStage(s) == IF Ok(s) /\ s.options.gps THEN parseGpsBlock(s) ELSE s

interopStage(s) == IF Ok(s) /\ s.options.interop THEN parseInteropBlock(s) ELSE s

\* a parse that forces the decode of the thumbnail directory
thumbnailStageForced(s) ==
    IF Ok(s) /\ s.options.thumbnail THEN parseThumbnailBlock(s, TRUE) ELSE s

thumbnailStage(s) ==
    IF Ok(s) /\ s.options.thumbnail THEN parseThumbnailBlock(s, FALSE) ELSE s

postProcessStage(s) == IF Ok(s) THEN postProcess(s) ELSE s

\* a parse that assigns the output whatever happened before
outputStageAlways(s) == buildOutput(s)

outputStage(s) == IF Ok(s) THEN buildOutput(s) ELSE s

\* Tiff.parse
parse(s) ==
    outputStage(postProcessStage(thumbnailStage(interopStage(gpsStage(exifStage(
        ifd0Stage(parseHeader(s))))))))

(***************************************************************************)
(* The buffers the sessions run on: TIFF structures laid out byte by byte. *)
(***************************************************************************)
U16(v, le) == IF le THEN <<v % 256, v \div 256>> ELSE <<v \div 256, v % 256>>

U32(v, le) ==
    IF le THEN <<v % 256, (v \div 256) % 256, (v \div 65536) % 256, v \div 16777216>>
          ELSE <<v \div 16777216, (v \div 65536) % 256, (v \div 256) % 256, v % 256>>

\* a 12-byte directory entry whose slot holds the four bytes given
EntryRaw(tag, type, count, slot, le) == U16(tag, le) \o U16(type, le) \o U32(count, le) \o slot

\* an entry whose slot holds a 32-bit number: a LONG value or an offset
Entry(tag, type, count, v, le) == EntryRaw(tag, type, count, U32(v, le), le)

\* an entry whose slot holds a 16-bit number followed by padding
EntryShort(tag, type, v, le) == EntryRaw(tag, type, 1, U16(v, le) \o <<0, 0>>, le)

\* a directory: entry count, entries, pointer to the next directory
Dir(entries, next, le) == U16(Len(entries), le) \o Flatten(entries) \o U32(next, le)

DirSize(n) == 2 + n * ENTRY_SIZE + 4

Marker(le) == IF le THEN <<73, 73>> ELSE <<77, 77>>

Header(le, ifd0Offset) == Marker(le) \o U16(TIFF_MAGIC, le) \o U32(ifd0Offset, le)

Rational(n, d, le) == U32(n, le) \o U32(d, le)

\* an offset no buffer of the model reaches
FarOffset == 5000

\* IFD0 with an image width, a make string and pointers to an EXIF and a
\* GPS directory; the EXIF directory points to an Interop directory; IFD1
\* describes a thumbnail of four bytes
BufFull(le) ==
    LET ifd0At == 8
        makeAt == ifd0At + DirSize(4)
        exifAt == makeAt + 6
        gpsAt == exifAt + DirSize(3)
        latAt == gpsAt + DirSize(4)
        lonAt == latAt + 24
        interopAt == lonAt + 24
        ifd1At == interopAt + DirSize(1)
        thumbAt == ifd1At + DirSize(2)
    IN Header(le, ifd0At)
       \o Dir(<<Entry(256, 4, 1, 640, le), Entry(271, 2, 6, makeAt, le),
                Entry(TAG_IFD_EXIF, 4, 1, exifAt, le),
                Entry(TAG_IFD_GPS, 4, 1, gpsAt, le)>>, ifd1At, le)
       \o <<65, 98, 0, 0, 0, 0>>
       \o Dir(<<EntryShort(256, 3, 320, le),
                EntryRaw(36867, 2, 3, <<50, 49, 0, 0>>, le),
                Entry(TAG_IFD_INTEROP, 4, 1, interopAt, le)>>, 0, le)
       \o Dir(<<EntryRaw(GPS_LATREF, 2, 2, <<83, 0, 0, 0>>, le),
                Entry(GPS_LAT, 5, 3, latAt, le),
                EntryRaw(GPS_LONREF, 2, 2, <<87, 0, 0, 0>>, le),
                Entry(GPS_LON, 5, 3, lonAt, le)>>, 0, le)
       \o Rational(10, 1, le) \o Rational(30, 1, le) \o Rational(0, 1, le)
       \o Rational(20, 1, le) \o Rational(15, 2, le) \o Rational(0, 1, le)
       \o Dir(<<EntryRaw(1, 2, 4, <<82, 57, 56, 0>>, le)>>, 0, le)
       \o Dir(<<Entry(THUMB_OFFSET, 4, 1, thumbAt, le),
                Entry(THUMB_LENGTH, 4, 1, 4, le)>>, 0, le)
       \o <<255, 216, 255, 217>>

\* a header followed by IFD0 alone
BufIfd0(le, entries, next) == Header(le, 8) \o Dir(entries, next, le)

\* headers that do not validate, and buffers too short to hold one
BadHeaderBuffers ==
    {<<18, 52>> \o U16(TIFF_MAGIC, TRUE) \o U32(8, TRUE) \o Dir(<<>>, 0, TRUE),
     Marker(TRUE) \o U16(43, TRUE) \o U32(8, TRUE) \o Dir(<<>>, 0, TRUE),
     Marker(FALSE) \o U16(TIFF_MAGIC, TRUE) \o U32(8, FALSE) \o Dir(<<>>, 0, FALSE),
     Header(TRUE, 4) \o Dir(<<>>, 0, TRUE),
     Header(FALSE, 7) \o Dir(<<>>, 0, FALSE),
     Marker(TRUE) \o U16(TIFF_MAGIC, TRUE),
     <<73>>}

\* IFD0 with an entry of a type code outside the table, for several counts
\* and slot values
UnknownTypeBuffers ==
    {BufIfd0(TRUE, <<Entry(256, 4, 1, 1, TRUE), Entry(700, type, count, slot, TRUE)>>, 0) :
        <<type, count, slot>> \in {<<14, 0, 0>>, <<14, 1, 0>>, <<14, 2, 0>>,
                                   <<0, 0, 9>>, <<0, 1, FarOffset>>, <<14, 0, FarOffset>>}}

MalformedBuffers ==
    {\* an out-of-line value whose offset lies beyond the buffer
     BufIfd0(TRUE, <<Entry(256, 4, 1, 1, TRUE), Entry(271, 2, 8, FarOffset, TRUE)>>, 0),
     BufIfd0(FALSE, <<Entry(256, 3, 4, FarOffset, FALSE)>>, 0),
     \* a thumbnail pointer beyond the buffer
     BufIfd0(TRUE, <<Entry(256, 4, 1, 1, TRUE)>>, FarOffset),
     \* a thumbnail pointer beyond the buffer, and an EXIF directory with an
     \* out-of-line value beyond the buffer
     BufIfd0(TRUE, <<Entry(256, 4, 1, 1, TRUE),
                     Entry(TAG_IFD_EXIF, 4, 1, 8 + DirSize(2), TRUE)>>, FarOffset)
         \o Dir(<<Entry(36867, 2, 8, FarOffset, TRUE)>>, 0, TRUE),
     \* malformed entries under skippable tags
     BufIfd0(TRUE, <<Entry(256, 4, 1, 7, TRUE), Entry(39321, 14, 1, 0, TRUE),
                     Entry(39322, 2, 8, FarOffset, TRUE)>>, 0)}

\* values that fit the slot, with slot bytes that are no valid offset
InlineBuffers ==
    {BufIfd0(le, <<EntryRaw(256, 1, 4, <<127, 255, 255, 127>>, le),
                   EntryRaw(257, 3, 2, <<127, 255, 255, 127>>, le),
                   EntryRaw(258, 9, 1, <<127, 255, 255, 127>>, le),
                   EntryRaw(259, 7, 4, <<127, 0, 255, 127>>, le),
                   EntryRaw(260, 2, 0, <<127, 255, 255, 127>>, le),
                   EntryRaw(261, 6, 3, <<127, 128, 255, 127>>, le)>>, 0) : le \in BOOLEAN}

\* an empty IFD0 without a thumbnail directory
EmptyBuffers == {BufIfd0(TRUE, <<>>, 0)}

\* IFD0 and the EXIF directory both point to an Interop directory
BufInterop ==
    LET exifAt == 8 + DirSize(3)
        interopA == exifAt + DirSize(2)
        interopB == interopA + DirSize(1)
    IN Header(TRUE, 8)
       \o Dir(<<Entry(256, 4, 1, 8, TRUE), Entry(TAG_IFD_EXIF, 4, 1, exifAt, TRUE),
                Entry(TAG_IFD_INTEROP, 4, 1, interopA, TRUE)>>, 0, TRUE)
       \o Dir(<<EntryShort(274, 3, 6, TRUE),
                Entry(TAG_IFD_INTEROP, 4, 1, interopB, TRUE)>>, 0, TRUE)
       \o Dir(<<EntryRaw(1, 2, 2, <<65, 0, 0, 0>>, TRUE)>>, 0, TRUE)
       \o Dir(<<EntryRaw(1, 2, 2, <<66, 0, 0, 0>>, TRUE)>>, 0, TRUE)

\* every pointer of IFD0, and the thumbnail pointer, lead back to IFD0
BufCyclic ==
    BufIfd0(TRUE, <<Entry(256, 4, 1, 9, TRUE), Entry(TAG_IFD_EXIF, 4, 1, 8, TRUE),
                    Entry(TAG_IFD_GPS, 4, 1, 8, TRUE),
                    Entry(TAG_IFD_INTEROP, 4, 1, 8, TRUE)>>, 8)

\* the Interop pointer of IFD0 is 0 and the EXIF directory holds another
BufInteropZero ==
    LET exifAt == 8 + DirSize(3)
        interopAt == exifAt + DirSize(1)
    IN Header(TRUE, 8)
       \o Dir(<<Entry(256, 4, 1, 8, TRUE), Entry(TAG_IFD_EXIF, 4, 1, exifAt, TRUE),
                Entry(TAG_IFD_INTEROP, 4, 1, 0, TRUE)>>, 0, TRUE)
       \o Dir(<<Entry(TAG_IFD_INTEROP, 4, 1, interopAt, TRUE)>>, 0, TRUE)
       \o Dir(<<EntryRaw(1, 2, 2, <<66, 0, 0, 0>>, TRUE)>>, 0, TRUE)

\* where the GPS directory of BufGps lies, and the data after its n entries
GpsAt == 8 + DirSize(2)

GpsDataAt(n) == GpsAt + DirSize(n)

\* IFD0 with an image width and a pointer to a GPS directory of the entries
\* given, followed by the data the entries point to
BufGps(entries, data) ==
    Header(TRUE, 8)
    \o Dir(<<Entry(256, 4, 1, 1, TRUE), Entry(TAG_IFD_GPS, 4, 1, GpsAt, TRUE)>>, 0, TRUE)
    \o Dir(entries, 0, TRUE) \o data

\* degrees, minutes and seconds as three rationals
Triple == Rational(10, 1, TRUE) \o Rational(30, 1, TRUE) \o Rational(0, 1, TRUE)

\* GPS directories that lack components, lack the hemisphere references, or
\* hold a latitude that is a single number
GpsBuffers ==
    {\* latitude alone
     BufGps(<<EntryRaw(GPS_LATREF, 2, 2, <<83, 0, 0, 0>>, TRUE),
              Entry(GPS_LAT, 5, 3, GpsDataAt(2), TRUE)>>, Triple),
     \* longitude alone
     BufGps(<<EntryRaw(GPS_LONREF, 2, 2, <<87, 0, 0, 0>>, TRUE),
              Entry(GPS_LON, 5, 3, GpsDataAt(2), TRUE)>>, Triple),
     \* both components, no hemisphere references
     BufGps(<<Entry(GPS_LAT, 5, 3, GpsDataAt(2), TRUE),
              Entry(GPS_LON, 5, 3, GpsDataAt(2) + 24, TRUE)>>, Triple \o Triple),
     \* a latitude of one rational, 0/1
     BufGps(<<Entry(GPS_LAT, 5, 1, GpsDataAt(2), TRUE),
              Entry(GPS_LON, 5, 3, GpsDataAt(2) + 8, TRUE)>>,
            Rational(0, 1, TRUE) \o Triple),
     \* a latitude of one short, 5
     BufGps(<<EntryShort(GPS_LAT, 3, 5, TRUE),
              Entry(GPS_LON, 5, 3, GpsDataAt(2), TRUE)>>, Triple)}

\* the length of a buffer that holds the header and an IFD0 of two entries
TwoEntryLength == 8 + DirSize(2)

\* out-of-line values that start inside the buffer, or right at its end, and
\* run past it
OverrunBuffers ==
    {BufIfd0(TRUE, <<Entry(256, 4, 1, 1, TRUE),
                     Entry(37500, type, count, TwoEntryLength - back, TRUE)>>, 0) :
        <<type, count, back>> \in {<<7, 8, 2>>, <<2, 5, 0>>, <<3, 4, 2>>, <<5, 1, 4>>}}

Buffers ==
    OverrunBuffers \cup
    {BufFull(TRUE), BufFull(FALSE), BufInterop, BufInteropZero, BufCyclic}
    \cup BadHeaderBuffers \cup UnknownTypeBuffers \cup MalformedBuffers
    \cup InlineBuffers \cup EmptyBuffers \cup GpsBuffers

(***************************************************************************)
(* The option configurations of the sessions.                              *)
(***************************************************************************)
AllBlocks == [exif |-> TRUE, gps |-> TRUE, interop |-> TRUE, thumbnail |-> TRUE]

BlockFlags ==
    {AllBlocks, [exif |-> FALSE, gps |-> FALSE, interop |-> TRUE, thumbnail |-> FALSE]}

NoPost == [postProcess |-> FALSE, translateTags |-> FALSE, reviveValues |-> FALSE]

FullPost == [postProcess |-> TRUE, translateTags |-> TRUE, reviveValues |-> TRUE]

PostFlags ==
    {NoPost, FullPost,
     [postProcess |-> TRUE, translateTags |-> FALSE, reviveValues |-> FALSE],
     [postProcess |-> TRUE, translateTags |-> TRUE, reviveValues |-> FALSE],
     [postProcess |-> TRUE, translateTags |-> FALSE, reviveValues |-> TRUE]}

\* tags of malformed entries that a skip set can name
SkippableTags == {39321, 39322}

NoFilter == [pickTags |-> {}, skipTags |-> {}]

\* a skip set, and a pick set that names one of the skipped tags
PickAndSkip == [pickTags |-> {256}, skipTags |-> {256, 271} \cup SkippableTags]

MkOptions(b, p, f, mergeOutput, sanitize) ==
    [exif |-> b.exif, gps |-> b.gps, interop |-> b.interop, thumbnail |-> b.thumbnail,
     postProcess |-> p.postProcess, translateTags |-> p.translateTags,
     reviveValues |-> p.reviveValues,
     pickTags |-> f.pickTags, skipTags |-> f.skipTags,
     mergeOutput |-> mergeOutput, sanitize |-> sanitize]

Options ==
    {MkOptions(b, p, NoFilter, m, z) :
        b \in BlockFlags, p \in PostFlags, m \in BOOLEAN, z \in BOOLEAN}
    \cup {MkOptions(AllBlocks, p, PickAndSkip, m, z) :
        p \in {NoPost, FullPost}, m \in BOOLEAN, z \in BOOLEAN}

(***************************************************************************)
(* The state machine: a session over a buffer, and the calls made on it.   *)
(***************************************************************************)
Init ==
    /\ buf \in Buffers
    /\ sess \in {NewSession(o) : o \in Options}
    /\ calls = 0
    /\ lastOp = "new"

\* a call starts with nothing thrown and nothing returned
Begin(s) == [s EXCEPT !.err = NoError, !.ret = NoBytes]

\* the call returns
Return(op) ==
    /\ calls' = calls + 1
    /\ lastOp' = op
    /\ UNCHANGED buf

Parse ==
    /\ calls < MaxCalls
    /\ sess' = parse(Begin(sess))
    /\ Return("parse")

ExtractThumbnail ==
    /\ calls < MaxCalls
    /\ sess' = extractThumbnail(Begin(sess))
    /\ Return("extractThumbnail")

ParseIfd0Block ==
    /\ calls < MaxCalls
    /\ sess' = parseIfd0Block(Begin(sess))
    /\ Return("parseIfd0Block")

ParseExifBlock ==
    /\ calls < MaxCalls
    /\ sess' = parseExifBlock(Begin(sess))
    /\ Return("parseExifBlock")

ParseGpsBlock ==
    /\ calls < MaxCalls
    /\ sess' = parseGpsBlock(Begin(sess))
    /\ Return("parseGpsBlock")

ParseInteropBlock ==
    /\ calls < MaxCalls
    /\ sess' = parseInteropBlock(Begin(sess))
    /\ Return("parseInteropBlock")

ParseThumbnailBlock ==
    /\ calls < MaxCalls
    /\ \E force \in BOOLEAN : sess' = parseThumbnailBlock(Begin(sess), force)
    /\ Return("parseThumbnailBlock")

Next ==
    \/ Parse
    \/ ExtractThumbnail
    \/ ParseIfd0Block
    \/ ParseExifBlock
    \/ ParseGpsBlock
    \/ ParseInteropBlock
    \/ ParseThumbnailBlock

Spec == Init /\ [][Next]_vars

(***************************************************************************)
(* The properties.                                                         *)
(***************************************************************************)
BlockOps ==
    {"parseIfd0Block", "parseExifBlock", "parseGpsBlock", "parseInteropBlock",
     "parseThumbnailBlock"}

\* C1: in any sequence of calls on a session each block is decoded at most
\* once; once a block is populated no call reads its directory again, and a
\* block operation leaves every populated block as it was.
MemoizedDecode ==
    [][\A b \in BlockNames :
          /\ sess'.decodes[b] <= 1
          /\ BlockOf(sess', b).def <=> sess'.decodes[b] = 1
          /\ BlockOf(sess, b).def =>
                /\ sess'.attempts[b] = sess.attempts[b]
                /\ lastOp' \in BlockOps => BlockOf(sess', b) = BlockOf(sess, b)]_vars

\* a block operation was called on a session whose parse() had populated
\* every block
MemoizedDecodeWitness ==
    /\ lastOp \in BlockOps
    /\ sess.output.def
    /\ \A b \in BlockNames : BlockOf(sess, b).def /\ sess.attempts[b] = 1

\* what a call of extractThumbnail gave its caller: the bytes or nothing, or
\* the error thrown
Outcome(s) == [err |-> s.err, ret |-> s.ret]

\* C2: extractThumbnail() called on a session whose parse() completed
\* returns what it returns on a fresh session over the same buffer.
ThumbnailAfterParse ==
    (lastOp = "extractThumbnail" /\ sess.output.def)
        => Outcome(sess) = Outcome(extractThumbnail(NewSession(sess.options)))

(***************************************************************************)
(* The calls statement by statement: lastOp holds the statement of parse() *)
(* or extractThumbnail() that runs next while a call is under way, and the *)
(* name of the call once it returned or threw.                             *)
(***************************************************************************)
ParseStatements ==
    <<"parse:header", "parse:ifd0", "parse:exif", "parse:gps", "parse:interop",
      "parse:thumbnail", "parse:postProcess", "parse:output", "parse">>

ExtractStatements ==
    <<"extract:header", "extract:ifd0", "extract:thumbnail", "extract:bytes",
      "extractThumbnail">>

\* the positions inside a call
Running ==
    {ParseStatements[i] : i \in 1..(Len(ParseStatements) - 1)}
    \cup {ExtractStatements[i] : i \in 1..(Len(ExtractStatements) - 1)}

\* the statement that follows the one at position pos in the sequence
Following(seq, pos) == seq[1 + CHOOSE i \in 1..(Len(seq) - 1) : seq[i] = pos]

\* a parse that runs the EXIF statement again while the exif block holds an
\* EXIF pointer of its own
NextStatementNested(pos, s) ==
    IF ~Ok(s) THEN (IF pos \in {ParseStatements[i] : i \in 1..8}
                    THEN "parse" ELSE "extractThumbnail")
    ELSE IF pos = "parse:exif" /\ s.exif.def /\ Has(s.exif.m, TAG_IFD_EXIF)
    THEN "parse:exif"
    ELSE IF pos \in {ParseStatements[i] : i \in 1..8}
    THEN Following(ParseStatements, pos)
    ELSE Following(ExtractStatements, pos)

\* where control goes after the statement at pos left the session as s: to
\* the caller when the statement threw, to the next statement otherwise
NextStatement(pos, s) ==
    IF ~Ok(s) THEN (IF pos \in {ParseStatements[i] : i \in 1..8}
                    THEN "parse" ELSE "extractThumbnail")
    ELSE IF pos \in {ParseStatements[i] : i \in 1..8}
    THEN Following(ParseStatements, pos)
    ELSE Following(ExtractStatements, pos)

\* the statement at position pos ran and left the session as s
Advance(pos, s) ==
    /\ sess' = s
    /\ lastOp' = NextStatement(pos, s)
    /\ calls' = IF NextStatement(pos, s) \in Running THEN calls ELSE calls + 1
    /\ UNCHANGED buf

\* line 259 of extractThumbnail
extractIfd0(s) == IF ~s.ifd0.def THEN parseIfd0Block(s) ELSE s

\* line 260 of extractThumbnail
extractThumbnailBlock(s) == IF ~s.thumbnailParsed THEN parseThumbnailBlock(s, TRUE) ELSE s

\* the session after the statement at position pos ran on the session s
RunStatement(pos, s) ==
    CASE pos = "parse:ifd0" -> ifd0Stage(s)
      [] pos = "parse:exif" -> exifStage(s)
      [] pos = "parse:gps" -> gpsStage(s)
      [] pos = "parse:interop" -> interopStage(s)
      [] pos = "parse:thumbnail" -> thumbnailStage(s)
      [] pos = "parse:postProcess" -> postProcessStage(s)
      [] pos = "parse:output" -> outputStage(s)
      [] pos = "extract:ifd0" -> extractIfd0(s)
      [] pos = "extract:thumbnail" -> extractThumbnailBlock(s)
      [] pos = "extract:bytes" -> thumbnailBytes(s)

StartParse ==
    /\ calls < MaxCalls /\ lastOp \notin Running
    /\ Advance("parse:header", parseHeader(Begin(sess)))

Ifd0Statement == lastOp = "parse:ifd0" /\ Advance(lastOp, RunStatement(lastOp, sess))

ExifStatement == lastOp = "parse:exif" /\ Advance(lastOp, RunStatement(lastOp, sess))

GpsStatement == lastOp = "parse:gps" /\ Advance(lastOp, RunStatement(lastOp, sess))

InteropStatement == lastOp = "parse:interop" /\ Advance(lastOp, RunStatement(lastOp, sess))

ThumbnailStatement ==
    lastOp = "parse:thumbnail" /\ Advance(lastOp, RunStatement(lastOp, sess))

PostProcessStatement ==
    lastOp = "parse:postProcess" /\ Advance(lastOp, RunStatement(lastOp, sess))

OutputStatement == lastOp = "parse:output" /\ Advance(lastOp, RunStatement(lastOp, sess))

StartExtract ==
    /\ calls < MaxCalls /\ lastOp \notin Running
    /\ Advance("extract:header", parseHeader(Begin(sess)))

ExtractIfd0Statement ==
    lastOp = "extract:ifd0" /\ Advance(lastOp, RunStatement(lastOp, sess))

ExtractThumbnailStatement ==
    lastOp = "extract:thumbnail" /\ Advance(lastOp, RunStatement(lastOp, sess))

ExtractBytesStatement ==
    lastOp = "extract:bytes" /\ Advance(lastOp, RunStatement(lastOp, sess))

StatementNext ==
    \/ StartParse \/ Ifd0Statement \/ ExifStatement \/ GpsStatement
    \/ InteropStatement \/ ThumbnailStatement \/ PostProcessStatement
    \/ OutputStatement
    \/ StartExtract \/ ExtractIfd0Statement \/ ExtractThumbnailStatement
    \/ ExtractBytesStatement

\* the calls of parse() and extractThumbnail() run statement by statement
StatementSpec == Init /\ [][StatementNext]_vars

(***************************************************************************)
(* The directories of the buffer as the session reads them.                *)
(***************************************************************************)
Min(a, b) == IF a <= b THEN a ELSE b

\* the offsets of the entries of the directory at dirOffset that lie inside
\* the buffer
EntryOffsets(dirOffset, le) ==
    IF dirOffset = Undefined \/ ~CanRead(dirOffset, 2) THEN {}
    ELSE {e \in {dirOffset + 2 + ENTRY_SIZE * i :
                    i \in 0..(Min(getUint16(dirOffset, le), byteLength) - 1)} :
             CanRead(e, ENTRY_SIZE)}

EntryTag(e, le) == getUint16(e, le)

EntryType(e, le) == getUint16(e + 2, le)

EntryCount(e, le) == getUint32(e + 4, le)

\* the offset at which a session found, or would look for, the directory of
\* a block
DirOffsetOf(s, b) ==
    CASE b = "ifd0" -> s.ifd0Offset
      [] b = "exif" -> s.exifOffset
      [] b = "gps" -> s.gpsOffset
      [] b = "interop" -> s.interopOffset
      [] b = "thumbnail" -> s.ifd1Offset

\* the entry passes the filter of the options: picked, or not skipped
PassesFilter(e, le, options) ==
    EntryTag(e, le) \in options.pickTags \/ EntryTag(e, le) \notin options.skipTags

\* the value of the entry is stored out of line
OutOfLine(e, le) ==
    /\ KnownType(EntryType(e, le))
    /\ SIZE_LOOKUP(EntryType(e, le)) * EntryCount(e, le) > 4

\* an out-of-line entry whose offset exceeds the length of the buffer
BadOffsetEntry(e, le) == OutOfLine(e, le) /\ getUint32(e + 8, le) > byteLength

\* every entry of the directory that the decoder reaches before e decodes
EarlierDecode(dirOffset, e, le, options) ==
    \A e2 \in EntryOffsets(dirOffset, le) :
        (e2 < e /\ PassesFilter(e2, le, options)) => parseTag(e2, le).err = NoError

\* the directory of block b, as the session s reads it, has an entry with an
\* offset beyond the buffer, and the decoder reaches that entry
ReachesBadOffset(s, b) ==
    \E e \in EntryOffsets(DirOffsetOf(s, b), s.le) :
        /\ PassesFilter(e, s.le, s.options)
        /\ BadOffsetEntry(e, s.le)
        /\ EarlierDecode(DirOffsetOf(s, b), e, s.le, s.options)

\* C3: a call that decodes a directory and reaches an out-of-line entry
\* whose offset exceeds the length of the buffer throws OffsetOutOfBounds
\* and produces no block, no output and no thumbnail; so does a call that
\* reads a thumbnail pointer beyond the buffer; and the entry decoder throws
\* OffsetOutOfBounds on every such entry.
OffsetOutOfBoundsRaised ==
    [][\A b \in BlockNames :
          sess'.attempts[b] > sess.attempts[b] =>
             /\ \A e \in EntryOffsets(DirOffsetOf(sess', b), sess'.le) :
                   BadOffsetEntry(e, sess'.le)
                       => parseTag(e, sess'.le) = Throw(OffsetOutOfBounds)
             /\ (\/ ReachesBadOffset(sess', b)
                 \/ b = "thumbnail" /\ sess'.ifd1Offset > byteLength)
                   => /\ sess'.err = OffsetOutOfBounds
                      /\ ~BlockOf(sess', b).def
                      /\ sess'.output = sess.output
                      /\ ~sess'.ret.def]_vars

\* one session has met both cases: a thumbnail pointer beyond the buffer,
\* and then an EXIF entry with an offset beyond the buffer
OffsetOutOfBoundsWitness ==
    /\ sess.err = OffsetOutOfBounds
    /\ lastOp = "parseExifBlock"
    /\ sess.attempts["exif"] = 1 /\ ~sess.exif.def
    /\ ReachesBadOffset(sess, "exif")
    /\ sess.attempts["thumbnail"] = 1 /\ ~sess.thumbnail.def
    /\ sess.ifd1Offset > byteLength

\* C4: decoding an entry whose type code is outside the table fails with
\* UnknownFieldType, whatever its count and its slot hold, and produces no
\* value.
UnknownTypeFails ==
    \A b \in BlockNames :
        sess.attempts[b] >= 1 =>
            \A e \in EntryOffsets(DirOffsetOf(sess, b), sess.le) :
                (PassesFilter(e, sess.le, sess.options) /\ ~KnownType(EntryType(e, sess.le)))
                    => parseTag(e, sess.le) = Throw(UnknownFieldType)

\* the byte-order marker of the buffer
LittleMarker == buf[1] = 73 /\ buf[2] = 73

BigMarker == buf[1] = 77 /\ buf[2] = 77

\* the header of a buffer of at least eight bytes does not validate
BadHeader ==
    \/ ~(LittleMarker \/ BigMarker)
    \/ getUint16(2, LittleMarker) # TIFF_MAGIC
    \/ getUint32(4, LittleMarker) < MIN_IFD0_OFFSET

\* C5: parse() sets the endianness flag after the marker, fails with
\* MalformedHeader exactly when the marker is neither 0x4949 nor 0x4D4D, the
\* word at 2 read in the selected byte order is not 0x002A, or the IFD0
\* offset is below 8, and decodes nothing when it fails so.
HeaderValidation ==
    [][(lastOp' = "parse" /\ byteLength >= 8) =>
          /\ sess'.err = MalformedHeader <=> BadHeader
          /\ (LittleMarker \/ BigMarker) => sess'.le = LittleMarker
          /\ BadHeader =>
                /\ sess'.attempts = sess.attempts
                /\ \A b \in BlockNames : BlockOf(sess', b) = BlockOf(sess, b)
                /\ sess'.output = sess.output]_vars

\* parse() rejected a big-endian header whose magic word is laid out in
\* little-endian order
HeaderValidationWitness ==
    /\ lastOp = "parse"
    /\ sess.err = MalformedHeader
    /\ BigMarker /\ ~sess.le
    /\ byteLength >= 8 /\ getUint16(2, TRUE) = TIFF_MAGIC
    /\ \A b \in BlockNames : sess.attempts[b] = 0 /\ ~BlockOf(sess, b).def

\* the value of the entry fits its slot
Inline(e, le) ==
    /\ KnownType(EntryType(e, le))
    /\ SIZE_LOOKUP(EntryType(e, le)) * EntryCount(e, le) <= 4

\* the numbers the slot of an inline entry of bytes, shorts or longs holds
SlotNumbers(e, le) ==
    CASE EntryType(e, le) \in {1, 7} -> getBytes(e + 8, EntryCount(e, le))
      [] EntryType(e, le) = 3 ->
             [i \in 1..EntryCount(e, le) |-> getUint16(e + 8 + 2 * (i - 1), le)]
      [] EntryType(e, le) \in {4, 13} ->
             [i \in 1..EntryCount(e, le) |-> getUint32(e + 8, le)]

\* the entries of the directory of block b that the decoder reaches: they
\* pass the filter and every entry before them decodes
Reached(b) ==
    {e \in EntryOffsets(DirOffsetOf(sess, b), sess.le) :
        /\ PassesFilter(e, sess.le, sess.options)
        /\ EarlierDecode(DirOffsetOf(sess, b), e, sess.le, sess.options)}

\* C6: in every directory a session decodes, an entry whose value fits the
\* slot (width * count <= 4) decodes without error to the value held in its
\* own slot at entry + 8, whatever offset the slot bytes would spell; an
\* entry whose value does not fit decodes to the value at the offset stored
\* in the slot.
InlineOrOffset ==
    \A b \in BlockNames :
        sess.attempts[b] >= 1 =>
            \A e \in Reached(b) :
                /\ Inline(e, sess.le) =>
                      /\ parseTag(e, sess.le).err = NoError
                      /\ parseTag(e, sess.le) =
                             parseTagAt(EntryType(e, sess.le), EntryCount(e, sess.le),
                                        e + 8, sess.le)
                      /\ EntryType(e, sess.le) \in {1, 3, 4, 7, 13} =>
                             parseTag(e, sess.le).val.v = SlotNumbers(e, sess.le)
                /\ (OutOfLine(e, sess.le) /\ ~BadOffsetEntry(e, sess.le)) =>
                      parseTag(e, sess.le) =
                          parseTagAt(EntryType(e, sess.le), EntryCount(e, sess.le),
                                     getUint32(e + 8, sess.le), sess.le)

\* parse() decoded an IFD0 with an inline entry of four bytes whose slot,
\* read as an offset, lies far beyond the buffer, next to values stored out
\* of line elsewhere
InlineOrOffsetWitness ==
    /\ lastOp = "parse" /\ sess.err = NoError /\ sess.ifd0.def
    /\ \E e \in EntryOffsets(sess.ifd0Offset, sess.le) :
          /\ Inline(e, sess.le) /\ EntryType(e, sess.le) = 1
          /\ TopByte(e + 8, sess.le) > 0
          /\ Has(sess.ifd0.m, EntryTag(e, sess.le))
          /\ sess.ifd0.m[EntryTag(e, sess.le)].v = getBytes(e + 8, 4)

\* no call has post-processed the blocks of the session
RawBlocks == ~sess.output.def \/ ~sess.options.postProcess

\* the tags of the entries of the directory of block b that are picked, or
\* not skipped
FilteredTags(b) ==
    {EntryTag(e, sess.le) :
        e \in {x \in EntryOffsets(DirOffsetOf(sess, b), sess.le) :
                  \/ EntryTag(x, sess.le) \in sess.options.pickTags
                  \/ EntryTag(x, sess.le) \notin sess.options.skipTags}}

\* every entry of the directory of block b lies inside the buffer, and those
\* that are picked, or not skipped, are well formed
FilteredWellFormed(b) ==
    /\ CanRead(DirOffsetOf(sess, b), 2)
    /\ CanRead(DirOffsetOf(sess, b) + 2,
               ENTRY_SIZE * getUint16(DirOffsetOf(sess, b), sess.le))
    /\ \A e \in EntryOffsets(DirOffsetOf(sess, b), sess.le) :
          (\/ EntryTag(e, sess.le) \in sess.options.pickTags
           \/ EntryTag(e, sess.le) \notin sess.options.skipTags)
              => parseTag(e, sess.le).err = NoError

\* C7: a decoded block holds exactly the tags of the entries of its
\* directory that are in the pick set or not in the skip set (IFD0 less the
\* pointer tags under sanitize); entries that fail the filter are not
\* decoded, so the decode succeeds whenever the entries that pass are well
\* formed.
FilteredDirectory ==
    \A b \in BlockNames :
        /\ (BlockOf(sess, b).def /\ RawBlocks) =>
              DOMAIN BlockOf(sess, b).m =
                  FilteredTags(b) \ (IF b = "ifd0" /\ sess.options.sanitize
                                     THEN PointerTags ELSE {})
        /\ (sess.attempts[b] >= 1 /\ FilteredWellFormed(b)) => BlockOf(sess, b).def

\* parse() completed over an IFD0 that holds a picked tag that is also
\* skipped and two malformed entries under skipped tags
FilteredDirectoryWitness ==
    /\ lastOp = "parse" /\ sess.err = NoError /\ sess.ifd0.def
    /\ 256 \in sess.options.pickTags \cap sess.options.skipTags
    /\ DOMAIN sess.ifd0.m = {256}
    /\ \E e \in EntryOffsets(sess.ifd0Offset, sess.le) :
          /\ EntryTag(e, sess.le) \in sess.options.skipTags \ sess.options.pickTags
          /\ parseTag(e, sess.le).err = UnknownFieldType
    /\ \E e \in EntryOffsets(sess.ifd0Offset, sess.le) :
          /\ EntryTag(e, sess.le) \in sess.options.skipTags \ sess.options.pickTags
          /\ parseTag(e, sess.le).err = OffsetOutOfBounds

\* the keys under which an IFD0 mapping holds the pointer tags, raw or named
PointerKeys == PointerTags \cup {Rename("ifd0", tag) : tag \in PointerTags}

\* the session of parse() over the same buffer with sanitize switched off
Unsanitized == parse(NewSession([sess.options EXCEPT !.sanitize = FALSE]))

\* the sessions s and t agree on every block but ifd0
SameOtherBlocks(s, t) ==
    /\ s.exif = t.exif /\ s.gps = t.gps
    /\ s.interop = t.interop /\ s.thumbnail = t.thumbnail

\* s is t with the pointer tags taken out of ifd0
SanitizedOf(s, t) ==
    /\ s.err = t.err
    /\ s.ifd0.def = t.ifd0.def
    /\ DOMAIN s.ifd0.m \cap PointerKeys = {}
    /\ s.ifd0.m = Remove(t.ifd0.m, PointerKeys)
    /\ SameOtherBlocks(s, t)
    /\ s.output.merged = t.output.merged
    /\ DOMAIN s.output.named = DOMAIN t.output.named
    /\ \A b \in DOMAIN s.output.named :
          s.output.named[b] = IF b = "ifd0" THEN Remove(t.output.named[b], PointerKeys)
                              ELSE t.output.named[b]

MergeTwin == parse(NewSession([sess.options EXCEPT !.mergeOutput = ~@]))

\* the sessions s and t hold the same blocks among bs with the same contents
SameBlocks(s, t, bs) == \A b \in bs : BlockOf(s, b) = BlockOf(t, b)

\* C9: parse() with mergeOutput on and parse() with mergeOutput off decode
\* the same blocks among ifd0, exif, gps, interop and thumbnail, with the
\* same contents.
MergeSameBlocks ==
    (lastOp = "parse" /\ calls = 1) => SameBlocks(sess, MergeTwin, BlockNames)

\* what holds of s, the session of parse(), and t, the session of parse()
\* with mergeOutput flipped
MergeAgreement(s, t) ==
    /\ s.options.mergeOutput => (~s.thumbnail.def /\ s.attempts["thumbnail"] = 0)
    /\ (s.err = NoError /\ t.err = NoError)
          => SameBlocks(s, t, BlockNames \ {"thumbnail"})
    /\ ~s.options.thumbnail => (s.err = t.err /\ SameBlocks(s, t, BlockNames))

\* C9, amended: parse() with mergeOutput on never decodes the thumbnail
\* block; when both calls complete, ifd0, exif, gps and interop are decoded
\* alike with the same contents under both settings, and with the thumbnail
\* option off all five blocks and the error are alike.
MergeSameBlocksButThumbnail ==
    (lastOp = "parse" /\ calls = 1) => MergeAgreement(sess, MergeTwin)

\* parse() with mergeOutput and thumbnail on completed without a thumbnail
\* block over a buffer whose IFD1 the call with mergeOutput off decodes
MergeSameBlocksWitness ==
    /\ lastOp = "parse" /\ calls = 1 /\ sess.err = NoError
    /\ sess.options.mergeOutput /\ sess.options.thumbnail
    /\ sess.ifd0.def /\ sess.exif.def /\ sess.gps.def /\ sess.interop.def
    /\ ~sess.thumbnail.def
    /\ MergeTwin.err = NoError /\ MergeTwin.thumbnail.def

\* the blocks of the session that were decoded
DecodedBlocks == {b \in BlockNames : BlockOf(sess, b).def}

\* the places, in the order ifd0, exif, gps, interop, thumbnail, of the
\* decoded blocks that hold the key k
PlacesOf(k) ==
    {i \in 1..Len(blockKeys) :
        /\ blockKeys[i] \in DecodedBlocks
        /\ k \in DOMAIN BlockOf(sess, blockKeys[i]).m}

\* the last block, in that order, that holds the key k
LastBlockWith(k) ==
    blockKeys[CHOOSE i \in PlacesOf(k) : \A j \in PlacesOf(k) : j <= i]

\* C10: the flat output of a merged parse() has the union of the keys of the
\* decoded blocks, each with the value of the last block, in the order ifd0,
\* exif, gps, interop, thumbnail, that holds it; the output of a non-merged
\* parse() maps exactly the names of the decoded blocks to their mappings.
OutputShape ==
    (lastOp = "parse" /\ sess.err = NoError) =>
        /\ sess.output.def
        /\ sess.output.merged = sess.options.mergeOutput
        /\ sess.output.merged =>
              /\ DOMAIN sess.output.flat =
                     UNION {DOMAIN BlockOf(sess, b).m : b \in DecodedBlocks}
              /\ \A k \in DOMAIN sess.output.flat :
                     sess.output.flat[k] = BlockOf(sess, LastBlockWith(k)).m[k]
        /\ ~sess.output.merged =>
              /\ DOMAIN sess.output.named = DecodedBlocks
              /\ \A b \in DecodedBlocks : sess.output.named[b] = BlockOf(sess, b).m

\* a merged parse() completed with a key that ifd0 and exif hold with
\* different values, and the flat output has the value of exif
OutputShapeWitness ==
    /\ lastOp = "parse" /\ sess.err = NoError /\ sess.output.merged
    /\ sess.ifd0.def /\ sess.exif.def
    /\ \E k \in DOMAIN sess.ifd0.m \cap DOMAIN sess.exif.m :
          /\ sess.ifd0.m[k] # sess.exif.m[k]
          /\ PlacesOf(k) = {1, 2}
          /\ sess.output.flat[k] = sess.exif.m[k]

\* the decoded block b took the tag from its directory
HoldsTag(b, tag) == BlockOf(sess, b).def /\ tag \in FilteredTags(b)

\* the pointer to IFD1 that follows the entries of IFD0; undefined when the
\* buffer ends before it
Ifd1Pointer ==
    IF sess.ifd0Offset = Undefined \/ ~CanRead(sess.ifd0Offset, 2) THEN Undefined
    ELSE IF ~CanRead(sess.ifd0Offset + 2
                        + ENTRY_SIZE * getUint16(sess.ifd0Offset, sess.le), 4)
    THEN Undefined
    ELSE getUint32(sess.ifd0Offset + 2
                       + ENTRY_SIZE * getUint16(sess.ifd0Offset, sess.le), sess.le)

\* block b was neither decoded nor looked for
Untouched(b) == ~BlockOf(sess, b).def /\ sess.attempts[b] = 0

\* IFD0 decoded to an empty mapping: no exif, gps or interop block, and a
\* parse() that finds no IFD1 either completes with ifd0 alone
EmptyIfd0IsNormal ==
    (sess.ifd0.def /\ FilteredTags("ifd0") = {}) =>
        /\ Untouched("exif") /\ Untouched("gps") /\ Untouched("interop")
        /\ (lastOp = "parse" /\ Ifd1Pointer = 0) =>
              (sess.err = NoError /\ DecodedBlocks = {"ifd0"})

\* a pointer tag that IFD0 (or, for Interop, the exif block too) lacks
\* leaves its block absent, and a parse() over a well-formed IFD0 with no
\* pointer at all completes with ifd0 alone
AbsentPointerIsNormal ==
    sess.ifd0.def =>
        /\ ~HoldsTag("ifd0", TAG_IFD_EXIF) => Untouched("exif")
        /\ ~HoldsTag("ifd0", TAG_IFD_GPS) => Untouched("gps")
        /\ (~HoldsTag("ifd0", TAG_IFD_INTEROP) /\ ~HoldsTag("exif", TAG_IFD_INTEROP))
              => Untouched("interop")
        /\ (lastOp = "parse" /\ FilteredTags("ifd0") \cap PointerTags = {}
                /\ Ifd1Pointer = 0)
              => (sess.err = NoError /\ DecodedBlocks = {"ifd0"})

\* a pointer to IFD1 that is 0 leaves the thumbnail block absent, and
\* extractThumbnail() returns nothing without failing
NoThumbnailIsNormal ==
    (sess.ifd0.def /\ Ifd1Pointer = 0) =>
        /\ Untouched("thumbnail")
        /\ lastOp = "extractThumbnail" => (sess.err = NoError /\ ~sess.ret.def)

\* a gps block without the latitude or the longitude components gains no
\* key, and post-processing does not fail
MissingGpsIsNormal ==
    (sess.gps.def /\ ~(HoldsTag("gps", GPS_LAT) /\ HoldsTag("gps", GPS_LON))) =>
        /\ DOMAIN sess.gps.m \cap {latitude, longitude} = {}
        /\ sess.err # TypeError

\* C11: an empty IFD0, an absent EXIF, GPS or Interop pointer tag, a
\* thumbnail pointer of 0 and a gps block without latitude or longitude
\* components do not make parse() or extractThumbnail() fail: the block, the
\* latitude and longitude keys or the thumbnail bytes are absent, and an
\* IFD0 that decodes to an empty mapping leaves exif, gps and interop
\* undecoded.
AbsenceIsNormal ==
    (calls = 1 /\ lastOp \in {"parse", "extractThumbnail"}) =>
        /\ EmptyIfd0IsNormal
        /\ AbsentPointerIsNormal
        /\ NoThumbnailIsNormal
        /\ MissingGpsIsNormal

\* a non-merged parse() with every block enabled completed over an IFD0
\* that has a GPS pointer only, followed by no IFD1, and a GPS directory
\* that holds the latitude without the longitude
AbsenceIsNormalWitness ==
    /\ calls = 1 /\ lastOp = "parse" /\ sess.err = NoError /\ sess.output.def
    /\ sess.options.exif /\ sess.options.interop /\ sess.options.thumbnail
    /\ ~sess.options.mergeOutput /\ sess.options.postProcess
    /\ Ifd1Pointer = 0
    /\ DecodedBlocks = {"ifd0", "gps"}
    /\ HoldsTag("gps", GPS_LAT) /\ ~HoldsTag("gps", GPS_LON)
    /\ DOMAIN sess.gps.m \cap {latitude, longitude} = {}

\* the mapping holds decoded values under tag codes: nothing was revived and
\* nothing renamed
RawMapping(m) == \A k \in DOMAIN m : k < TagName(0) /\ m[k].revived = 0

\* the call just made failed while it decoded the block at place i
FailedAt(i) ==
    /\ sess'.attempts[blockKeys[i]] > sess.attempts[blockKeys[i]]
    /\ ~BlockOf(sess', blockKeys[i]).def

\* C12: an error raised by a stage of parse() ends that parse: the caller
\* gets the error, the stages after the failing one do not run (no later
\* block is looked for, no block is post-processed) and the output of the
\* session is not assigned.
ErrorIsFatal ==
    [][(lastOp' = "parse" /\ sess'.err # NoError) =>
          /\ sess'.output = sess.output
          /\ sess'.ret = NoBytes
          /\ \A b \in BlockNames :
                /\ BlockOf(sess, b).def => BlockOf(sess', b) = BlockOf(sess, b)
                /\ (~BlockOf(sess, b).def /\ BlockOf(sess', b).def)
                      => RawMapping(BlockOf(sess', b).m)
          /\ \A i, j \in 1..Len(blockKeys) :
                (i < j /\ FailedAt(i))
                    => /\ sess'.attempts[blockKeys[j]] = sess.attempts[blockKeys[j]]
                       /\ BlockOf(sess', blockKeys[j]) = BlockOf(sess, blockKeys[j])
          /\ sess'.err = MalformedHeader => sess'.attempts = sess.attempts]_vars

\* a first parse() with translation on failed in the EXIF directory: ifd0
\* keeps its tag codes, the IFD1 the buffer points to was not looked for and
\* there is no output
ErrorIsFatalWitness ==
    /\ lastOp = "parse" /\ calls = 1 /\ sess.err = OffsetOutOfBounds
    /\ sess.options.thumbnail /\ ~sess.options.mergeOutput
    /\ sess.options.postProcess /\ sess.options.translateTags
    /\ sess.ifd0.def /\ 256 \in DOMAIN sess.ifd0.m
    /\ sess.attempts["exif"] = 1 /\ ~sess.exif.def
    /\ Ifd1Pointer # 0 /\ sess.attempts["thumbnail"] = 0
    /\ ~sess.output.def

\* the number the directory of block b holds under the tag; undefined when
\* the decoded block did not take the tag from its directory
NumberUnder(b, tag) ==
    IF ~HoldsTag(b, tag) THEN Undefined
    ELSE AsOffset([k \in {tag} |->
                      parseTag(CHOOSE e \in EntryOffsets(DirOffsetOf(sess, b), sess.le) :
                                   EntryTag(e, sess.le) = tag, sess.le).val], tag)

\* the decode of block b was tried and failed
Failed(b) == sess.attempts[b] >= 1 /\ ~BlockOf(sess, b).def

\* a first parse() with the interop option got as far as the Interop block
ReachedInterop ==
    /\ lastOp = "parse" /\ calls = 1 /\ sess.options.interop
    /\ sess.ifd0.def /\ ~Failed("exif") /\ ~Failed("gps")

\* the Interop block was looked for at the pointer, or left alone when the
\* pointer is undefined, in which case an error can only come from the
\* thumbnail block or from post-processing
InteropAt(pointer) ==
    IF pointer = Undefined
    THEN /\ Untouched("interop")
         /\ sess.err # NoError => (Failed("thumbnail") \/ sess.err = TypeError)
    ELSE /\ sess.attempts["interop"] = 1
         /\ sess.interopOffset = pointer
         /\ FilteredWellFormed("interop") => sess.interop.def

\* C13: the Interop block is decoded at the Interop pointer of IFD0 whenever
\* IFD0 holds one, at the Interop pointer of the decoded exif block only when
\* IFD0 holds none, and is left undecoded without error when neither exists.
InteropFromIfd0First ==
    ReachedInterop =>
        InteropAt(IF HoldsTag("ifd0", TAG_IFD_INTEROP)
                  THEN NumberUnder("ifd0", TAG_IFD_INTEROP)
                  ELSE NumberUnder("exif", TAG_IFD_INTEROP))

\* C13, amended: the Interop block is decoded at the Interop pointer of IFD0
\* whenever IFD0 holds one that is not 0, at the Interop pointer of the
\* decoded exif block when IFD0 holds none or holds 0, and is left undecoded
\* without error when neither exists.
InteropFromNonzeroIfd0First ==
    ReachedInterop =>
        InteropAt(IF NumberUnder("ifd0", TAG_IFD_INTEROP) \notin {Undefined, 0}
                  THEN NumberUnder("ifd0", TAG_IFD_INTEROP)
                  ELSE NumberUnder("exif", TAG_IFD_INTEROP))

\* IFD0 and the exif block hold different Interop pointers, and parse()
\* decoded the Interop directory IFD0 points to
InteropFromIfd0Witness ==
    /\ ReachedInterop /\ sess.err = NoError /\ sess.exif.def /\ sess.interop.def
    /\ NumberUnder("ifd0", TAG_IFD_INTEROP) \notin {Undefined, 0}
    /\ NumberUnder("exif", TAG_IFD_INTEROP) \notin
           {Undefined, 0, NumberUnder("ifd0", TAG_IFD_INTEROP)}
    /\ sess.interopOffset = NumberUnder("ifd0", TAG_IFD_INTEROP)

\* C14: with mergeOutput on, no parse() looks for or decodes the thumbnail
\* directory, whatever the thumbnail option and however many calls are made,
\* and parseThumbnailBlock() does so only when forced; extractThumbnail(),
\* which forces it, decodes the directory the buffer points to.
MergedSkipsThumbnail ==
    [][sess.options.mergeOutput =>
          /\ lastOp' = "parse" =>
                /\ sess'.thumbnail.def = sess.thumbnail.def
                /\ sess'.attempts["thumbnail"] = sess.attempts["thumbnail"]
                /\ sess'.thumbnailParsed = sess.thumbnailParsed
                /\ sess'.ifd1Offset = sess.ifd1Offset
          /\ sess'.attempts["thumbnail"] > sess.attempts["thumbnail"]
                => lastOp' \in {"extractThumbnail", "parseThumbnailBlock"}
          /\ parseThumbnailBlock(Begin(sess), FALSE) = Begin(sess)
          /\ (lastOp' = "extractThumbnail" /\ sess'.err = NoError
                 /\ Ifd1Pointer' \notin {0, Undefined})
                => sess'.thumbnail.def]_vars

\* with mergeOutput and the thumbnail option on, a parse() completed without
\* a thumbnail block over a buffer that has an IFD1, and the extractThumbnail()
\* that followed decoded it and returned the bytes
MergedSkipsThumbnailWitness ==
    /\ sess.options.mergeOutput /\ sess.options.thumbnail
    /\ calls = 2 /\ lastOp = "extractThumbnail" /\ sess.err = NoError
    /\ sess.output.def /\ sess.output.merged
    /\ sess.attempts["thumbnail"] = 1 /\ sess.thumbnail.def
    /\ Ifd1Pointer \notin {0, Undefined}

\* the mappings of the decoded blocks of session s
Mappings(s) == {BlockOf(s, b).m : b \in {x \in BlockNames : BlockOf(s, x).def}}

\* no value of session s went through translateValue more than once
RevivedOnce(s) == \A m \in Mappings(s) : \A k \in DOMAIN m : m[k].revived <= 1

\* C15: a second parse() on a session whose first parse() completed
\* completes with an output equal to that of the first, and no value has
\* been revived a second time.
PostProcessReentrant ==
    [][(lastOp = "parse" /\ calls = 1 /\ sess.err = NoError /\ lastOp' = "parse") =>
          /\ sess'.err = NoError
          /\ sess'.output = sess.output
          /\ RevivedOnce(sess')]_vars

\* where the value of the entry lies: in its slot, or at the offset the slot
\* holds
ValueAt(e, le) == IF Inline(e, le) THEN e + 8 ELSE getUint32(e + 8, le)

\* the bytes of the value of an entry of a known type all lie in the buffer
ValueInside(e, le) ==
    CanRead(ValueAt(e, le), SIZE_LOOKUP(EntryType(e, le)) * EntryCount(e, le))

\* the numbers a value of the type and count is made of
NumbersOf(type, count) == IF type \in {5, 10} THEN 2 * count ELSE count

OneLevel ==
    sess.ifd0.def =>
        /\ sess.exifOffset = NumberUnder("ifd0", TAG_IFD_EXIF)
        /\ sess.gpsOffset = NumberUnder("ifd0", TAG_IFD_GPS)
        /\ sess.interopOffset \in {Undefined, NumberUnder("ifd0", TAG_IFD_INTEROP),
                                   NumberUnder("exif", TAG_IFD_INTEROP)}
        /\ sess.ifd1Offset \in {Undefined, Ifd1Pointer}

\* a call reads each of the five directories at most once
OneReadPerCall ==
    \A b \in BlockNames :
        /\ sess.decodes[b] <= 1
        /\ sess.attempts[b] <= calls + (IF lastOp \in Running THEN 1 ELSE 0)

\* how far into its call the position pos is
Place(pos) ==
    IF pos \in {ParseStatements[i] : i \in 1..Len(ParseStatements)}
    THEN CHOOSE i \in 1..Len(ParseStatements) : ParseStatements[i] = pos
    ELSE CHOOSE i \in 1..Len(ExtractStatements) : ExtractStatements[i] = pos

\* the statement about to run ends, and control then moves forward in the
\* call or leaves it
MovesForward ==
    lastOp \in Running =>
        Place(NextStatement(lastOp, RunStatement(lastOp, sess))) > Place(lastOp)

\* C17: every parse() and extractThumbnail() call completes or fails,
\* whatever the buffer holds, pointers that lead back to IFD0 included: each
\* statement of a call ends and hands control forward through a sequence of
\* at most eight statements, a call reads each of the five directories at
\* most once and follows no pointer found below IFD0 except the Interop
\* pointer of exif.
CallsTerminate == OneLevel /\ OneReadPerCall /\ MovesForward

\* parse() completed over the buffer whose EXIF, GPS, Interop and IFD1
\* pointers all lead back to IFD0: each block was read once, at IFD0
CallsTerminateWitness ==
    /\ lastOp = "parse" /\ calls = 1 /\ sess.err = NoError
    /\ \A b \in BlockNames :
          /\ BlockOf(sess, b).def /\ sess.attempts[b] = 1
          /\ DirOffsetOf(sess, b) = sess.ifd0Offset
    /\ NumberUnder("exif", TAG_IFD_EXIF) = sess.exifOffset

\* the mapping a decode of the directory of the decoded block b yields
DecodedMapping(b) ==
    [tag \in FilteredTags(b) \ (IF b = "ifd0" /\ sess.options.sanitize
                                THEN PointerTags ELSE {}) |->
        parseTag(CHOOSE e \in EntryOffsets(DirOffsetOf(sess, b), sess.le) :
                     /\ EntryTag(e, sess.le) = tag
                     /\ \A x \in EntryOffsets(DirOffsetOf(sess, b), sess.le) :
                           EntryTag(x, sess.le) = tag => x <= e,
                 sess.le).val]

\* the key under which the gps block holds the tag after post-processing
GpsKey(tag) == IF sess.options.translateTags THEN Rename("gps", tag) ELSE tag

\* a first parse() decoded the gps block and got as far as post-processing
ReachedPostProcess ==
    /\ lastOp = "parse" /\ calls = 1 /\ sess.gps.def
    /\ sess.err \in {NoError, TypeError}

\* C18: with postProcess off parse() leaves every decoded block as decoded;
\* with postProcess on the gps block has the keys latitude and longitude if
\* and only if its directory gave it both the latitude components (tag 2)
\* and the longitude components (tag 4), and the decoded entries of the
\* block are still there next to the two keys.
GpsRefinement ==
    /\ (lastOp = "parse" /\ calls = 1 /\ ~sess.options.postProcess) =>
          \A b \in DecodedBlocks : BlockOf(sess, b).m = DecodedMapping(b)
    /\ (ReachedPostProcess /\ sess.options.postProcess) =>
          /\ ({latitude, longitude} \subseteq DOMAIN sess.gps.m)
                <=> (HoldsTag("gps", GPS_LAT) /\ HoldsTag("gps", GPS_LON))
          /\ DOMAIN sess.gps.m \cap {latitude, longitude} \in {{}, {latitude, longitude}}
          /\ \A tag \in FilteredTags("gps") :
                /\ GpsKey(tag) \in DOMAIN sess.gps.m
                /\ sess.gps.m[GpsKey(tag)] = DecodedMapping("gps")[tag]

====
